---- MODULE Spec2Model ----
(***************************************************************************)
(* Model of YouTubeVideoDownloaderDriver.py: the Tk window with one URL    *)
(* entry and the mp3/mp4 buttons, and the button callback                  *)
(* downloadYouTubeVideo, step by step, over a model of the Downloads       *)
(* directory.  The provider (pytube) and the operating system are the      *)
(* environment: every call into them either returns or raises.             *)
(***************************************************************************)
EXTENDS Integers, Sequences, FiniteSets, TLC

VARIABLES
    url,       \* the text of the URL entry (tk.StringVar)
    ret,       \* the result holder shared by both buttons (tk.BooleanVar)
    queue,     \* button activations the main loop has not dispatched yet
    pc,        \* where the UI thread is: "Idle" in the main loop, else in the callback
    inflight,  \* activations of downloadYouTubeVideo that have not returned
    fileType, yt, stream, outFile,   \* the callback's parameter and locals
    dialog,    \* the message box the callback opened
    dir,       \* the Downloads directory: path -> what it holds
    outcome,   \* how the callback ended
    did,       \* the steps the callback has completed
    dirBefore, \* dir when the callback was entered
    dirAfterDownload,  \* dir when stream.download returned
    raisedAt,  \* the call of the callback that raised, "none" so far
    prev       \* the previous callback, when it was an mp3 request that downloaded

vars == <<url, ret, queue, pc, inflight, fileType, yt, stream, outFile, dialog,
          dir, outcome, did, dirBefore, dirAfterDownload, raisedAt, prev>>

(* ------------------------------ bounds -------------------------------- *)

\* Button activations waiting in the event queue while the UI thread is busy.
MaxQueue == 1

(* ------------------------- module constants --------------------------- *)

FILE_TYPES == <<"mp3", "mp4">>

GUI_ERROR_URL_TITLE == "URL Error"
GUI_ERROR_URL_TEXT_EMPTY == "The URL is empty."
GUI_ERROR_URL_TEXT_INVALID == "The URL is invalid."
GUI_ERROR_AGE_TITLE == "Age Restriction Error"
GUI_ERROR_AGE_TEXT == "The video is age restricted."
GUI_INFO_SUCCESS_TITLE == "Download Successful"
GUI_INFO_SUCCESS_TEXT == "The content was successfully downloaded."

(* --------------------------- the environment -------------------------- *)

\* Python's None, and a local that is not bound yet.
None == "None"

\* Contents of the URL entry: empty, text the provider's constructor
\* rejects, and two URLs the constructor accepts.
WatchUrls == {"watch?v=A", "watch?v=B"}
Urls == {"", "not a url"} \cup WatchUrls

\* The file name the provider derives from the video's title, as the
\* sequence of its dot-separated parts; the second title has a dot in it.
Title(u) == IF u = "watch?v=A" THEN <<"A">> ELSE <<"B", ".", "1">>

\* Container subtypes a stream can have: one that is not mp3, and mp3.
Subtypes == {"mp4", "mp3"}

\* Files the Downloads directory can hold: <title>.<subtype>.
Files == {Title(u) \o <<".", e>> : u \in WatchUrls, e \in Subtypes}

NoDialog == [title |-> "", message |-> ""]

\* What a path of the directory holds: nothing, or a file, whole or cut
\* short by a failure in mid-download, whose bytes were written by the
\* callback now running ("current") or were there when it was entered.
Absent == [by |-> "nobody", whole |-> FALSE]
Contents == {Absent} \cup [by : {"earlier", "current"}, whole : BOOLEAN]

\* The directory as the next callback finds it.
Earlier(d) ==
    [f \in DOMAIN d |->
        IF d[f].by = "current" THEN [by |-> "earlier", whole |-> d[f].whole] ELSE d[f]]

(* ------------------------- provider and os calls ---------------------- *)

\* YouTube(url = ..., use_oauth = True) raises when no video id is found
\* in the text, the empty string included.
YouTubeCtorRaises(u) == u \notin WatchUrls

\* stream.download writes to <Downloads>/<title>.<subtype>.
DefaultFilename(s) == s.title \o <<".", s.subtype>>

\* Index of the last "." of p that has a part other than "." before it,
\* 0 when there is none.
RECURSIVE LastDot(_, _)
LastDot(p, i) ==
    IF i <= 1 THEN 0
    ELSE IF p[i] = "." /\ \E j \in 1..(i - 1) : p[j] # "." THEN i
    ELSE LastDot(p, i - 1)

\* os.path.splitext: <<base, ext>>, ext starting at the last dot.
splitext(p) ==
    LET i == LastDot(p, Len(p))
    IN IF i = 0 THEN <<p, <<>>>>
       ELSE <<SubSeq(p, 1, i - 1), SubSeq(p, i, Len(p))>>

\* newFile = base + ".mp3"
NewFile(f) == splitext(f)[1] \o <<".", "mp3">>

\* os.path.isfile
isfile(d, f) == f \in DOMAIN d /\ d[f] # Absent

\* os.remove of an existing file
remove(d, f) == [d EXCEPT ![f] = Absent]

\* os.rename of an existing file; the destination is replaced.
rename(d, src, dst) ==
    IF src = dst THEN d ELSE [d EXCEPT ![dst] = d[src], ![src] = Absent]

(* ------------------------------ the window ---------------------------- *)

NoStream == [kind |-> "none", title |-> <<>>, subtype |-> ""]
NoFile == <<>>
NoPrev == [url |-> "", outFile |-> NoFile, outcome |-> "none"]

DialogStates == {"UrlDialog", "AgeDialog", "SuccessDialog"}

\* The window as createGUI builds it, before any event; the Downloads
\* directory may already hold files.
Init ==
    /\ url = ""
    /\ ret = FALSE
    /\ queue = <<>>
    /\ pc = "Idle"
    /\ inflight = 0
    /\ fileType = None
    /\ yt = None
    /\ stream = NoStream
    /\ outFile = NoFile
    /\ dialog = NoDialog
    /\ dir \in [Files -> {Absent, [by |-> "earlier", whole |-> TRUE]}]
    /\ outcome = "none"
    /\ did = {}
    /\ dirBefore = dir
    /\ dirAfterDownload = dir
    /\ raisedAt = "none"
    /\ prev = NoPrev

locals == <<fileType, yt, stream, outFile>>
ghosts == <<did, dirBefore, dirAfterDownload, raisedAt, prev>>

\* Every event is handled by the main loop on the one UI thread.
MainloopReady_Always == TRUE

\* root.mainloop() takes the next event only when the callback before it
\* has returned.
MainloopReady == pc = "Idle"

\* The user edits the URL entry.
TypeUrl(u) ==
    /\ MainloopReady
    /\ u # url
    /\ url' = u
    /\ UNCHANGED <<ret, queue, pc, inflight, locals, dialog, dir, outcome, ghosts>>

\* The user presses the mp3 or the mp4 button; the press waits in the event
\* queue for the main loop.  While a message box is up it holds the grab
\* and the press never reaches the button.
ClickButton(ft) ==
    /\ pc \notin DialogStates
    /\ Len(queue) < MaxQueue
    /\ queue' = Append(queue, ft)
    /\ UNCHANGED <<url, ret, pc, inflight, locals, dialog, dir, outcome, ghosts>>

\* The main loop runs the pressed button's command:
\* downloadYouTubeVideo(url = url, fileType = FILE_TYPES[i], ret = ret).
Dispatch ==
    /\ MainloopReady
    /\ queue # <<>>
    /\ queue' = Tail(queue)
    /\ fileType' = Head(queue)
    /\ yt' = None
    /\ stream' = NoStream
    /\ outFile' = NoFile
    /\ dialog' = NoDialog
    /\ pc' = "Resolving"
    /\ inflight' = inflight + 1
    /\ outcome' = "running"
    /\ did' = {}
    /\ dirBefore' = dir
    /\ dirAfterDownload' = dir
    /\ raisedAt' = "none"
    /\ UNCHANGED <<url, ret, dir, prev>>

(* ------------------------ downloadYouTubeVideo ------------------------ *)

\* The callback's frame is left, by a return statement or by an exception.
Leave(o) ==
    /\ pc' = "Returning"
    /\ outcome' = o

\* An exception leaves the callback: Tk reports it on stderr; no message
\* box is shown and ret is not set.
Propagate(call) ==
    /\ Leave("Raised")
    /\ raisedAt' = call
    /\ UNCHANGED <<ret, dialog>>

\* The raises that are the operating system's refusal, not the callback's doing.
OsFaults == {"remove", "rename"}

\* A message box opens and takes the grab: the presses made on the window's
\* buttons while the callback was busy are swallowed by it, or, where the
\* platform's own box leaves them queued, wait until the box is closed.
BoxOpens == queue' \in {queue, <<>>}

\* try: yt = YouTube(url = url.get(), use_oauth = True)
\* except Exception: yt = None
Resolve ==
    /\ pc = "Resolving"
    /\ yt' = IF YouTubeCtorRaises(url) THEN None ELSE url
    /\ pc' = "Finally"
    /\ did' = did \cup {"resolve"}
    /\ UNCHANGED <<url, ret, queue, inflight, fileType, stream, outFile, dialog, dir,
                   outcome, dirBefore, dirAfterDownload, raisedAt, prev>>

\* The two texts the wrong way round.
UrlErrorText_Swapped(u) ==
    IF u = "" THEN GUI_ERROR_URL_TEXT_INVALID ELSE GUI_ERROR_URL_TEXT_EMPTY

\* GUI_ERROR_URL_TEXT_EMPTY if url.get() == "" else GUI_ERROR_URL_TEXT_INVALID
UrlErrorText(u) ==
    IF u = "" THEN GUI_ERROR_URL_TEXT_EMPTY ELSE GUI_ERROR_URL_TEXT_INVALID

\* finally: with yt bound, yt.title is read for the log, which makes the
\* provider fetch the video's info and can raise; the raise is inside the
\* finally block, so nothing catches it.  With yt None the error box opens.
Finally ==
    /\ pc = "Finally"
    /\ \/ /\ yt # None
          /\ pc' = "Selecting"
          /\ did' = did \cup {"title"}
          /\ UNCHANGED <<ret, queue, dialog, outcome, raisedAt>>
       \/ /\ yt # None
          /\ Propagate("title")
          /\ UNCHANGED <<queue, did>>
       \/ /\ yt = None
          /\ dialog' = [title |-> GUI_ERROR_URL_TITLE, message |-> UrlErrorText(url)]
          /\ BoxOpens
          /\ pc' = "UrlDialog"
          /\ UNCHANGED <<ret, outcome, did, raisedAt>>
    /\ UNCHANGED <<url, inflight, locals, dir, dirBefore, dirAfterDownload, prev>>

\* The box is closed and the callback goes on to the stream selection.
CloseUrlDialog_NoReturn ==
    /\ pc = "UrlDialog"
    /\ ret' = FALSE
    /\ pc' = "Selecting"
    /\ UNCHANGED <<url, queue, inflight, locals, dialog, dir, outcome, ghosts>>

\* The user closes the URL error box: ret.set(False); return
CloseUrlDialog ==
    /\ pc = "UrlDialog"
    /\ ret' = FALSE
    /\ Leave(IF url = "" THEN "URL_EMPTY" ELSE "URL_INVALID")
    /\ UNCHANGED <<url, queue, inflight, locals, dialog, dir, ghosts>>

\* The stream selection without the try/except around it.
SelectStream_NoExcept ==
    /\ pc = "Selecting"
    /\ \/ /\ yt # None
          /\ \E e \in Subtypes :
                stream' = [kind |-> IF fileType = "mp3" THEN "audio" ELSE "video",
                           title |-> Title(yt), subtype |-> e]
          /\ pc' = "Downloading"
          /\ did' = did \cup {"select"}
          /\ UNCHANGED <<ret, dialog, outcome, raisedAt>>
       \/ /\ yt # None
          /\ stream' = NoStream
          /\ pc' = "Downloading"
          /\ did' = did \cup {"select"}
          /\ UNCHANGED <<ret, dialog, outcome, raisedAt>>
       \/ /\ Propagate("select")
          /\ UNCHANGED <<stream, did>>
    /\ UNCHANGED <<url, queue, inflight, fileType, yt, outFile, dir, dirBefore,
                   dirAfterDownload, prev>>

\* try: stream = yt.streams.get_audio_only() for "mp3", else
\* yt.streams.get_highest_resolution().  The call returns a stream of some
\* subtype, or None when no stream matches, or raises (always, were yt
\* None); the bare except opens the age restriction box.
SelectStream ==
    /\ pc = "Selecting"
    /\ \/ /\ yt # None
          /\ \E e \in Subtypes :
                stream' = [kind |-> IF fileType = "mp3" THEN "audio" ELSE "video",
                           title |-> Title(yt), subtype |-> e]
          /\ pc' = "Downloading"
          /\ did' = did \cup {"select"}
          /\ UNCHANGED <<queue, dialog, raisedAt>>
       \/ /\ yt # None
          /\ stream' = NoStream
          /\ pc' = "Downloading"
          /\ did' = did \cup {"select"}
          /\ UNCHANGED <<queue, dialog, raisedAt>>
       \/ /\ dialog' = [title |-> GUI_ERROR_AGE_TITLE, message |-> GUI_ERROR_AGE_TEXT]
          /\ BoxOpens
          /\ pc' = "AgeDialog"
          /\ raisedAt' = "select"
          /\ UNCHANGED <<stream, did>>
    /\ UNCHANGED <<url, ret, inflight, fileType, yt, outFile, dir, outcome,
                   dirBefore, dirAfterDownload, prev>>

\* The user closes the age restriction box: ret.set(False); return
CloseAgeDialog ==
    /\ pc = "AgeDialog"
    /\ ret' = FALSE
    /\ Leave("ACCESS_RESTRICTED")
    /\ UNCHANGED <<url, queue, inflight, locals, dialog, dir, ghosts>>

\* outFile = stream.download(output_path = <home>/Downloads).  With stream
\* None the call raises.  Otherwise the provider writes the file (or keeps
\* a whole file already at that path), or raises before writing or in
\* mid-download, leaving the partial file behind; nothing catches the raise.
Download ==
    /\ pc = "Downloading"
    /\ \/ /\ stream # NoStream
          /\ \/ dir' = [dir EXCEPT ![DefaultFilename(stream)] =
                                      [by |-> "current", whole |-> TRUE]]
             \/ /\ dir[DefaultFilename(stream)].whole
                /\ UNCHANGED dir
          /\ outFile' = DefaultFilename(stream)
          /\ pc' = "Converting"
          /\ did' = did \cup {"download"}
          /\ dirAfterDownload' = dir'
          /\ UNCHANGED <<ret, dialog, outcome, raisedAt>>
       \/ /\ stream # NoStream
          /\ \/ dir' = [dir EXCEPT ![DefaultFilename(stream)] =
                                      [by |-> "current", whole |-> FALSE]]
             \/ UNCHANGED dir
          /\ Propagate("download")
          /\ UNCHANGED <<outFile, did, dirAfterDownload>>
       \/ /\ stream = NoStream
          /\ Propagate("download")
          /\ UNCHANGED <<outFile, dir, did, dirAfterDownload>>
    /\ UNCHANGED <<url, queue, inflight, fileType, yt, stream, dirBefore, prev>>

\* Every kind of request is converted.
NeedsConvert_Always(ft) == TRUE

\* if (fileType == "mp3"):
NeedsConvert(ft) == ft = "mp3"

\* The head of the mp3 branch: newFile = base + ".mp3", and a file already
\* at newFile is removed; os.remove can raise (a file in use, no
\* permission), which nothing catches.  For mp4 the branch is skipped.
Convert ==
    /\ pc = "Converting"
    /\ \/ /\ NeedsConvert(fileType)
          /\ isfile(dir, NewFile(outFile))
          /\ dir' = remove(dir, NewFile(outFile))
          /\ pc' = "Renaming"
          /\ UNCHANGED <<ret, dialog, outcome, raisedAt>>
       \/ /\ NeedsConvert(fileType)
          /\ isfile(dir, NewFile(outFile))
          /\ Propagate("remove")
          /\ UNCHANGED dir
       \/ /\ NeedsConvert(fileType)
          /\ ~isfile(dir, NewFile(outFile))
          /\ pc' = "Renaming"
          /\ UNCHANGED <<dir, ret, dialog, outcome, raisedAt>>
       \/ /\ ~NeedsConvert(fileType)
          /\ pc' = "Succeeding"
          /\ UNCHANGED <<dir, ret, dialog, outcome, raisedAt>>
    /\ UNCHANGED <<url, queue, inflight, locals, did, dirBefore, dirAfterDownload, prev>>

\* os.rename(outFile, newFile): raises when outFile is not there, and can
\* raise for the operating system's own reasons; nothing catches either.
Rename ==
    /\ pc = "Renaming"
    /\ \/ /\ isfile(dir, outFile)
          /\ dir' = rename(dir, outFile, NewFile(outFile))
          /\ pc' = "Succeeding"
          /\ did' = did \cup {"rename"}
          /\ UNCHANGED <<ret, dialog, outcome, raisedAt>>
       \/ /\ isfile(dir, outFile)
          /\ Propagate("rename")
          /\ UNCHANGED <<dir, did>>
       \/ /\ ~isfile(dir, outFile)
          /\ Propagate("rename of no file")
          /\ UNCHANGED <<dir, did>>
    /\ UNCHANGED <<url, queue, inflight, locals, dirBefore, dirAfterDownload, prev>>

\* ret.set(True), then the success box opens.
Succeed ==
    /\ pc = "Succeeding"
    /\ ret' = TRUE
    /\ dialog' = [title |-> GUI_INFO_SUCCESS_TITLE, message |-> GUI_INFO_SUCCESS_TEXT]
    /\ BoxOpens
    /\ pc' = "SuccessDialog"
    /\ did' = did \cup {"success"}
    /\ UNCHANGED <<url, inflight, locals, dir, outcome, dirBefore,
                   dirAfterDownload, raisedAt, prev>>

\* The user closes the success box: return ret
CloseSuccessDialog ==
    /\ pc = "SuccessDialog"
    /\ Leave("Done")
    /\ UNCHANGED <<url, ret, queue, inflight, locals, dialog, dir, ghosts>>

\* Control is back in the main loop: the callback's locals are gone and
\* the window takes the next event.
Return ==
    /\ pc = "Returning"
    /\ pc' = "Idle"
    /\ inflight' = inflight - 1
    /\ fileType' = None
    /\ yt' = None
    /\ stream' = NoStream
    /\ outFile' = NoFile
    /\ dialog' = NoDialog
    /\ dir' = Earlier(dir)
    /\ outcome' = "none"
    /\ did' = {}
    /\ dirBefore' = dir'
    /\ dirAfterDownload' = dir'
    /\ raisedAt' = "none"
    /\ prev' = IF fileType = "mp3" /\ outFile # NoFile
               THEN [url |-> url, outFile |-> outFile,
                     outcome |-> IF raisedAt \in OsFaults THEN "OsFault" ELSE outcome]
               ELSE NoPrev
    /\ UNCHANGED <<url, ret, queue>>

Next ==
    \/ \E u \in Urls : TypeUrl(u)
    \/ \E i \in 1..Len(FILE_TYPES) : ClickButton(FILE_TYPES[i])
    \/ Dispatch
    \/ Resolve
    \/ Finally
    \/ CloseUrlDialog
    \/ SelectStream
    \/ CloseAgeDialog
    \/ Download
    \/ Convert
    \/ Rename
    \/ Succeed
    \/ CloseSuccessDialog
    \/ Return

Spec == Init /\ [][Next]_vars

Steps == {"resolve", "title", "select", "download", "rename", "success"}

TypeOK ==
    /\ url \in Urls
    /\ ret \in BOOLEAN
    /\ queue \in Seq({"mp3", "mp4"}) /\ Len(queue) <= MaxQueue
    /\ pc \in {"Idle", "Resolving", "Finally", "Selecting", "Downloading",
               "Converting", "Renaming", "Succeeding", "Returning"} \cup DialogStates
    /\ inflight \in {0, 1}
    /\ fileType \in {None, "mp3", "mp4"}
    /\ yt \in {None} \cup WatchUrls
    /\ outFile \in {NoFile} \cup Files
    /\ dir \in [Files -> Contents]
    /\ did \subseteq Steps

(* ------------------------------ the claims ---------------------------- *)

UrlEmptyBox == [title |-> GUI_ERROR_URL_TITLE, message |-> GUI_ERROR_URL_TEXT_EMPTY]
UrlInvalidBox == [title |-> GUI_ERROR_URL_TITLE, message |-> GUI_ERROR_URL_TEXT_INVALID]
AgeBox == [title |-> GUI_ERROR_AGE_TITLE, message |-> GUI_ERROR_AGE_TEXT]
SuccessBox == [title |-> GUI_INFO_SUCCESS_TITLE, message |-> GUI_INFO_SUCCESS_TEXT]

\* The callback has ended and control is about to be back in the main loop.
Ended == pc = "Returning"

\* C1: a request, of either kind, made with the URL entry empty never
\* selects a stream, downloads or touches the directory, and ends as
\* URL_EMPTY: the "URL Error" / "The URL is empty." box was shown and ret
\* is False.
C1_EmptyUrl ==
    (pc # "Idle" /\ url = "") =>
        /\ did \subseteq {"resolve"}
        /\ dir = dirBefore
        /\ stream = NoStream /\ outFile = NoFile
        /\ pc \in {"Resolving", "Finally", "UrlDialog", "Returning"}
        /\ pc \in {"UrlDialog", "Returning"} => dialog = UrlEmptyBox
        /\ Ended => outcome = "URL_EMPTY" /\ ret = FALSE

C1_Witness ==
    /\ Ended /\ url = "" /\ fileType = "mp4"
    /\ outcome = "URL_EMPTY" /\ dialog = UrlEmptyBox /\ ~ret

\* C2: a request whose URL is not empty and does not resolve (the
\* provider's constructor raised, or the first fetch of the video's info
\* for the title raised) ends as URL_INVALID: the "The URL is invalid." box
\* was shown, ret is False, and no stream was selected or downloaded.
C2_Claim ==
    (Ended /\ url # "" /\ "title" \notin did) =>
        /\ outcome = "URL_INVALID"
        /\ dialog = UrlInvalidBox
        /\ ret = FALSE
        /\ did \cap {"select", "download"} = {}

\* C3: a request whose stream selection raised ends as ACCESS_RESTRICTED
\* (the "Age Restriction Error" box was shown, ret is False) and has not
\* created, renamed or removed any file.
C3_SelectionRaised ==
    (pc # "Idle" /\ raisedAt = "select") =>
        /\ pc \in {"AgeDialog", "Returning"}
        /\ dialog = AgeBox
        /\ dir = dirBefore
        /\ did = {"resolve", "title"}
        /\ outFile = NoFile
        /\ Ended => outcome = "ACCESS_RESTRICTED" /\ ret = FALSE

C3_Witness ==
    /\ Ended /\ raisedAt = "select" /\ outcome = "ACCESS_RESTRICTED"
    /\ dialog = AgeBox /\ ~ret
    /\ \E f \in Files : isfile(dir, f)

\* C4: an mp3 request whose download completed (the operating system not
\* refusing the remove or the rename) ends with the success box shown and
\* the downloaded bytes at <name>.mp3, whatever the extension of the
\* downloaded file.
C4_Claim ==
    (Ended /\ fileType = "mp3" /\ "download" \in did /\ raisedAt \notin OsFaults) =>
        /\ outcome = "Done"
        /\ dialog = SuccessBox
        /\ dir[NewFile(outFile)] = dirAfterDownload[outFile]
        /\ isfile(dir, NewFile(outFile))

\* C5: the same mp3 request run twice in a row for the same URL and the
\* same downloaded file name succeeds both times and leaves <name>.mp3
\* holding the second run's bytes and no <name>.<originalExt>.
C5_Claim ==
    (/\ Ended /\ fileType = "mp3" /\ "download" \in did /\ raisedAt \notin OsFaults
     /\ prev.url = url /\ prev.outFile = outFile /\ prev.outcome # "OsFault") =>
        /\ prev.outcome = "Done"
        /\ outcome = "Done"
        /\ dir[NewFile(outFile)] = [by |-> "current", whole |-> TRUE]
        /\ outFile # NewFile(outFile) => ~isfile(dir, outFile)

\* C6: in an mp4 request nothing happens to the directory after the
\* download: the downloaded file stays at <name>.<subtype> as the provider
\* wrote it, no file is renamed or removed, and the request ends Done.
C6_VideoUntouched ==
    (pc # "Idle" /\ fileType = "mp4" /\ "download" \in did) =>
        /\ dir = dirAfterDownload
        /\ outFile = DefaultFilename(stream)
        /\ isfile(dir, outFile)
        /\ "rename" \notin did
        /\ pc \in {"Converting", "Succeeding", "SuccessDialog", "Returning"}
        /\ Ended => outcome = "Done" /\ dialog = SuccessBox /\ ret

C6_Witness ==
    /\ Ended /\ fileType = "mp4" /\ outcome = "Done"
    /\ isfile(dir, outFile) /\ isfile(dir, NewFile(outFile))
    /\ outFile # NewFile(outFile)

\* C7: whatever call of the callback raised, the request ends with an
\* error box shown and ret False; no exception leaves the callback.
C7_Claim ==
    (Ended /\ raisedAt # "none") =>
        /\ outcome \in {"URL_EMPTY", "URL_INVALID", "ACCESS_RESTRICTED"}
        /\ dialog \in {UrlEmptyBox, UrlInvalidBox, AgeBox}
        /\ ret = FALSE

\* The per-request state machine, as pairs of consecutive positions:
\* Idle -> Resolving -> (Failed(URL_*) | Selecting) ->
\* (Failed(ACCESS_RESTRICTED) | Downloading) -> (Renaming if mp3) -> Done,
\* every state also ending the request, which returns control to Idle.
Order ==
    {<<"Idle", "Resolving">>, <<"Resolving", "Finally">>,
     <<"Finally", "UrlDialog">>, <<"Finally", "Selecting">>, <<"Finally", "Returning">>,
     <<"UrlDialog", "Returning">>,
     <<"Selecting", "AgeDialog">>, <<"Selecting", "Downloading">>,
     <<"AgeDialog", "Returning">>,
     <<"Downloading", "Converting">>, <<"Downloading", "Returning">>,
     <<"Converting", "Renaming">>, <<"Converting", "Succeeding">>,
     <<"Converting", "Returning">>,
     <<"Renaming", "Succeeding">>, <<"Renaming", "Returning">>,
     <<"Succeeding", "SuccessDialog">>, <<"SuccessDialog", "Returning">>,
     <<"Returning", "Idle">>}

C8_Step ==
    /\ pc' # pc => <<pc, pc'>> \in Order
    /\ pc' = "Selecting" => yt' # None /\ did' = {"resolve", "title"}
    /\ pc' = "Downloading" => did' = {"resolve", "title", "select"}
    /\ pc' = "Converting" => did' = {"resolve", "title", "select", "download"}
    /\ pc' = "Renaming" => fileType' = "mp3" /\ "download" \in did'
    /\ pc' = "Succeeding" =>
          /\ "download" \in did'
          /\ "rename" \in did' <=> fileType' = "mp3"
    /\ (pc' = "SuccessDialog" \/ outcome' = "Done") =>
          /\ ret' /\ dialog' = SuccessBox
          /\ "download" \in did'
          /\ "rename" \in did' <=> fileType' = "mp3"
    /\ (pc \in {"UrlDialog", "AgeDialog"} \/ (Ended /\ outcome # "Done")) =>
          /\ pc' \in {pc, "Returning", "Idle"}
          /\ dir' = dir \/ (pc' = "Idle" /\ dir' = Earlier(dir))
          /\ did' = did \/ pc' = "Idle"
          /\ "success" \notin did /\ dialog # SuccessBox

\* C8: every request takes the steps of the state machine in order:
\* selecting only after the URL resolved, downloading only after a stream
\* was selected, renaming only for mp3, and Done (ret True, success box)
\* only after the download and, for mp3, the rename; a failed request takes
\* no further step, never shows the success box, and returns to Idle.
C8_StateMachine == [][C8_Step]_vars

C8_Witness ==
    /\ Ended /\ outcome = "Done" /\ fileType = "mp3"
    /\ did = {"resolve", "title", "select", "download", "rename", "success"}
    /\ prev.outcome = "Raised"

\* C9: at most one activation of the callback is in flight, and the UI
\* thread is in the main loop exactly when none is; presses made meanwhile
\* wait in the queue.
C9_OneInFlight ==
    /\ inflight \in {0, 1}
    /\ inflight = 0 <=> pc = "Idle"

C9_Witness ==
    /\ pc = "Renaming" /\ inflight = 1
    /\ queue # <<>>

\* C10: a successful mp3 request leaves every file other than <name>.mp3 as
\* it was when the request began.
C10_Claim ==
    (Ended /\ fileType = "mp3" /\ outcome = "Done") =>
        \A f \in Files \ {NewFile(outFile)} : dir[f] = dirBefore[f]

====
